---------------------------- MODULE Spec2Model ----------------------------
(***************************************************************************)
(* Downward message passing (DMP) queue of the relay-chain runtime:        *)
(* runtime/parachains/src/dmp.rs and runtime/parachains/src/dmp/ringbuf.rs *)
(*                                                                         *)
(* Every para owns a paged ring buffer of messages, a message window that  *)
(* numbers the live messages, a global MQC head and one MQC head per live  *)
(* message index.  The model keeps the integer widths of the code, scaled  *)
(* down: WrappingIndex is a counter of IdxBits bits (u64 in the code) and  *)
(* u32 values have U32Bits bits, with U32Bits < IdxBits as in the code.    *)
(***************************************************************************)
EXTENDS Integers, Sequences, FiniteSets, TLC

(***************************************************************************)
(* Bounds of the model.                                                    *)
(***************************************************************************)
\* width of WrappingIndex (64 in the code)
IdxBits == 3
\* width of u32 (32 in the code)
U32Bits == 2
\* number of messages sent to the first para (every other para is sent one)
MaxEnq == 9
\* largest DmpPageCapacity the model is instantiated with
MaxPageCap == 2
\* largest relay-chain block number
MaxBlock == 1
\* number of messages sent to the first para where paras are retired
MaxEnqRetire == 4
\* number of messages sent to the first para where the paras are compared
MaxEnqPair == 3
\* number of messages sent to the first para where the pages are read
MaxEnqContents == 6
\* number of messages sent to each of the two copies of a queue
MaxEnqTwin == 3
MaxEnqShift == 3

IdxSpace == 2 ^ IdxBits
U32Space == 2 ^ U32Bits
Idx == 0 .. (IdxSpace - 1)
U32 == 0 .. (U32Space - 1)
Paras == {1, 2}

\* Option<T>: None is the empty sequence, Some(x) the one-element sequence
None == << >>
Some(x) == << x >>
Min(a, b) == IF a < b THEN a ELSE b

\* `x as u32`
as_u32(x) == x % U32Space

(***************************************************************************)
(* WrappingIndex<T> (polkadot_parachain::primitives): modular counter.     *)
(***************************************************************************)
wrapping_inc(i) == (i + 1) % IdxSpace
wrapping_dec(i) == (i + IdxSpace - 1) % IdxSpace
wrapping_add(i, n) == (i + n) % IdxSpace
wrapping_sub(i, n) == (i + IdxSpace - (n % IdxSpace)) % IdxSpace

(***************************************************************************)
(* Messages.  A DownwardMessage is a byte vector; the queue only looks at  *)
(* its length and its hash, so it is modelled by an identity and a length. *)
(* The sender's n-th accepted message of a para is Msg(n); BigMsg is a     *)
(* message longer than every configured maximum.                           *)
(***************************************************************************)
Msg(n) == [id |-> n, len |-> 1 + (n % 2)]
BigMsg == [id |-> 0, len |-> U32Space - 1]
\* values of config.max_downward_message_size used by the callers
MaxSizes == {1, 2}

\* Hashes are modelled collision free: a hash is the term it was computed
\* from.  Hash::zero() is the empty term.
HashZero == << >>
T_Hashing_hash_of(msg) == << msg.id, msg.len >>
BlakeTwo256_hash_of(head, sent_at, msg_hash) == Append(head, << sent_at, msg_hash >>)

(***************************************************************************)
(* ringbuf.rs: RingBuffer                                                  *)
(***************************************************************************)
RingBufferState_default == [head_page_idx |-> 0, tail_page_idx |-> 0]
MessageWindowState_default == [first_message_idx |-> 0, free_message_idx |-> 0]
QueueState_default ==
    [ring_buffer_state |-> RingBufferState_default,
     message_window_state |-> MessageWindowState_default]

\* a faulty QueuePageIndex: the key does not carry the para
QueuePageIndex_shared(para, idx) == [para_id |-> 1, page_idx |-> idx]
QueuePageIndex(para, idx) == [para_id |-> para, page_idx |-> idx]
ParaMessageIndex(para, idx) == [para_id |-> para, message_idx |-> idx]

RingBuffer_with_state(state, para) == [para_id |-> para, state |-> state]

RingBuffer_size(rb) == wrapping_sub(rb.state.tail_page_idx, rb.state.head_page_idx)

RingBuffer_front(rb) ==
    IF rb.state.tail_page_idx = rb.state.head_page_idx
    THEN None
    ELSE Some(QueuePageIndex(rb.para_id, rb.state.head_page_idx))

\* a faulty RingBuffer_last_used: the key at the tail, the first unused page
RingBuffer_last_used_tail(rb) ==
    IF rb.state.tail_page_idx = rb.state.head_page_idx
    THEN None
    ELSE Some(QueuePageIndex(rb.para_id, rb.state.tail_page_idx))

RingBuffer_last_used(rb) ==
    IF rb.state.tail_page_idx = rb.state.head_page_idx
    THEN None
    ELSE Some(QueuePageIndex(rb.para_id, wrapping_dec(rb.state.tail_page_idx)))

\* extend: panic is TRUE when the code panics; otherwise rb is the new buffer
\* and ret the key of the allocated page
\* a faulty RingBuffer_extend: the tail is compared with the head before it advances
RingBuffer_extend_late(rb) ==
    LET tail == wrapping_inc(rb.state.tail_page_idx) IN
    [panic |-> (wrapping_inc(tail) = rb.state.head_page_idx),
     rb |-> [rb EXCEPT !.state.tail_page_idx = tail],
     ret |-> QueuePageIndex(rb.para_id, wrapping_dec(tail))]

RingBuffer_extend(rb) ==
    LET tail == wrapping_inc(rb.state.tail_page_idx) IN
    [panic |-> (tail = rb.state.head_page_idx),
     rb |-> [rb EXCEPT !.state.tail_page_idx = tail],
     ret |-> QueuePageIndex(rb.para_id, wrapping_dec(tail))]

\* a faulty RingBuffer_prune: the head may overtake the tail
RingBuffer_prune_uncapped(rb, count) ==
    [rb EXCEPT !.state.head_page_idx = wrapping_add(rb.state.head_page_idx, count)]

\* prune(count: u32)
RingBuffer_prune(rb, count) ==
    LET to_prune == Min(RingBuffer_size(rb), count) IN
    [rb EXCEPT !.state.head_page_idx = wrapping_add(rb.state.head_page_idx, to_prune)]

\* a faulty RingBuffer_pop_front: the head advances on an empty ring too
RingBuffer_pop_front_always(rb) ==
    [rb |-> [rb EXCEPT !.state.head_page_idx = wrapping_inc(rb.state.head_page_idx)],
     ret |-> RingBuffer_front(rb)]

RingBuffer_pop_front(rb) ==
    LET page == RingBuffer_front(rb) IN
    [rb |-> IF page # None
            THEN [rb EXCEPT !.state.head_page_idx = wrapping_inc(rb.state.head_page_idx)]
            ELSE rb,
     ret |-> page]

\* RingBufferIterator: the keys produced by calling pop_front until None
RECURSIVE RingBufferIterator(_)
RingBufferIterator(rb) ==
    LET r == RingBuffer_pop_front(rb) IN
    IF r.ret = None THEN << >> ELSE << r.ret[1] >> \o RingBufferIterator(r.rb)

(***************************************************************************)
(* ringbuf.rs: MessageWindow                                               *)
(***************************************************************************)
MessageWindow_with_state(state, para) == [para_id |-> para, state |-> state]

\* a faulty MessageWindow_size: the difference of the indices without the wrap
MessageWindow_size_unwrapped(w) ==
    IF w.state.free_message_idx >= w.state.first_message_idx
    THEN w.state.free_message_idx - w.state.first_message_idx
    ELSE 0

MessageWindow_size(w) == wrapping_sub(w.state.free_message_idx, w.state.first_message_idx)

\* a faulty MessageWindow_extend: an empty window starts again at index 0
MessageWindow_extend_restarting(w, count) ==
    LET first == IF MessageWindow_size(w) = 0 THEN 0 ELSE w.state.first_message_idx
        free == wrapping_add(IF MessageWindow_size(w) = 0 THEN 0 ELSE w.state.free_message_idx,
                             count)
    IN  [panic |-> (MessageWindow_size(w) > 0
                        /\ wrapping_sub(w.state.first_message_idx, w.state.free_message_idx) < count),
         w |-> [w EXCEPT !.state = [first_message_idx |-> first, free_message_idx |-> free]],
         ret |-> ParaMessageIndex(w.para_id, wrapping_dec(free))]

MessageWindow_extend(w, count) ==
    LET free_count == wrapping_sub(w.state.first_message_idx, w.state.free_message_idx)
        free == wrapping_add(w.state.free_message_idx, count)
    IN  [panic |-> (MessageWindow_size(w) > 0 /\ free_count < count),
         w |-> [w EXCEPT !.state.free_message_idx = free],
         ret |-> ParaMessageIndex(w.para_id, wrapping_dec(free))]

\* a faulty MessageWindow_prune: one message more than asked leaves the window
MessageWindow_prune_one_more(w, count) ==
    LET to_prune == Min(MessageWindow_size(w), count + 1)
        first == wrapping_add(w.state.first_message_idx, to_prune)
    IN  [w |-> [w EXCEPT !.state.first_message_idx = first],
         ret |-> IF first = w.state.free_message_idx
                 THEN None
                 ELSE Some(ParaMessageIndex(w.para_id, first))]

\* a faulty MessageWindow_prune: the first index is returned for an emptied window too
MessageWindow_prune_some(w, count) ==
    LET to_prune == Min(MessageWindow_size(w), count)
        first == wrapping_add(w.state.first_message_idx, to_prune)
    IN  [w |-> [w EXCEPT !.state.first_message_idx = first],
         ret |-> Some(ParaMessageIndex(w.para_id, first))]

MessageWindow_prune(w, count) ==
    LET to_prune == Min(MessageWindow_size(w), count)
        first == wrapping_add(w.state.first_message_idx, to_prune)
    IN  [w |-> [w EXCEPT !.state.first_message_idx = first],
         ret |-> IF first = w.state.free_message_idx
                 THEN None
                 ELSE Some(ParaMessageIndex(w.para_id, first))]

MessageWindow_first(w) ==
    IF MessageWindow_size(w) > 0
    THEN Some(ParaMessageIndex(w.para_id, w.state.first_message_idx))
    ELSE None

MessageWindow_first_free(w) == ParaMessageIndex(w.para_id, w.state.free_message_idx)


(***************************************************************************)
(* dmp.rs: the pallet's storage                                            *)
(***************************************************************************)
VARIABLES
    \* DownwardMessageQueueState: ParaId -> QueueState (ValueQuery)
    DownwardMessageQueueState,
    \* DownwardMessageQueuePages: QueuePageIndex -> Option<page>
    DownwardMessageQueuePages,
    \* DownwardMessageQueueHeads: ParaId -> Option<Hash>
    DownwardMessageQueueHeads,
    \* DownwardMessageQueueHeadsById: ParaMessageIndex -> Option<Hash>
    DownwardMessageQueueHeadsById,
    \* T::DmpPageCapacity, fixed by the runtime configuration
    DmpPageCapacity,
    \* frame_system::Pallet::<T>::block_number()
    block_number,
    \* history: per para, the messages accepted so far, in order
    sent,
    \* history: per para, the number of messages removed from pages so far
    pruned,
    \* the last call and its result
    op

vars == << DownwardMessageQueueState, DownwardMessageQueuePages,
           DownwardMessageQueueHeads, DownwardMessageQueueHeadsById,
           DmpPageCapacity, block_number, sent, pruned, op >>

QueuePageIndexes == [para_id : Paras, page_idx : Idx]
ParaMessageIndexes == [para_id : Paras, message_idx : Idx]

\* the persisted items as one value
Storage ==
    [state |-> DownwardMessageQueueState,
     pages |-> DownwardMessageQueuePages,
     heads |-> DownwardMessageQueueHeads,
     heads_by_id |-> DownwardMessageQueueHeadsById]

\* StorageMap with ValueQuery: get returns the default for a missing key
StorageGet(map, key, default) == IF map[key] = None THEN default ELSE map[key][1]
StorageInsert(map, key, value) == [map EXCEPT ![key] = Some(value)]
\* a faulty StorageRemove: the entry is left behind
StorageRemove_skipped(map, key) == map
StorageRemove(map, key) == [map EXCEPT ![key] = None]
StorageExists(map, key) == map[key] # None

\* Pallet::dmp_queue_state (storage getter)
dmp_queue_state(st, para) == st.state[para]

\* a faulty update_state: the global MQC head of the para is dropped with the write
update_state_drops_head(st, para, new_state) ==
    [st EXCEPT !.state[para] = new_state, !.heads[para] = None]

\* Pallet::update_state
update_state(st, para, new_state) == [st EXCEPT !.state[para] = new_state]

\* a faulty try_push: a full page takes one message more
try_push_over(page, inbound, capacity) ==
    IF Len(page) <= capacity
    THEN [ok |-> TRUE, page |-> Append(page, inbound)]
    ELSE [ok |-> FALSE, page |-> page]

\* BoundedVec::try_push under T::DmpPageCapacity
try_push(page, inbound, capacity) ==
    IF Len(page) < capacity
    THEN [ok |-> TRUE, page |-> Append(page, inbound)]
    ELSE [ok |-> FALSE, page |-> page]

\* a faulty exceeds_max_message_size: a message of exactly the maximum is rejected
exceeds_max_message_size_ge(msg, max_downward_message_size) ==
    as_u32(msg.len) >= max_downward_message_size

\* queue_downward_message: `serialized_len > config.max_downward_message_size`
exceeds_max_message_size(msg, max_downward_message_size) ==
    LET serialized_len == as_u32(msg.len) IN serialized_len > max_downward_message_size

(***************************************************************************)
(* Pallet::queue_downward_message.  The result is Ok, Err (the message is  *)
(* too long) or Panic (RingBuffer::extend or MessageWindow::extend         *)
(* panicked; the runtime call is aborted and none of its writes persist).  *)
(***************************************************************************)
queue_downward_message(st, capacity, now, max_downward_message_size, para, msg) ==
    LET qs == dmp_queue_state(st, para)
        ring_buf == RingBuffer_with_state(qs.ring_buffer_state, para)
        message_window == MessageWindow_with_state(qs.message_window_state, para)
        inbound == [msg |-> msg, sent_at |-> now]
        new_head == BlakeTwo256_hash_of(StorageGet(st.heads, para, HashZero),
                                        inbound.sent_at, T_Hashing_hash_of(inbound.msg))
        ext == MessageWindow_extend(message_window, 1)
        new_message_idx == ext.ret
        \* ring_buf.last_used().unwrap_or_else(|| ring_buf.extend())
        last == RingBuffer_last_used(ring_buf)
        first_ext == RingBuffer_extend(ring_buf)
        ring_buf1 == IF last = None THEN first_ext.rb ELSE ring_buf
        page_idx == IF last = None THEN first_ext.ret ELSE last[1]
        page == StorageGet(st.pages, page_idx, << >>)
        pushed == try_push(page, inbound, capacity)
        second_ext == RingBuffer_extend(ring_buf1)
        ring_buf2 == IF pushed.ok THEN ring_buf1 ELSE second_ext.rb
        pages2 == IF pushed.ok
                  THEN StorageInsert(st.pages, page_idx, pushed.page)
                  ELSE StorageInsert(st.pages, second_ext.ret, << inbound >>)
        panic == \/ ext.panic
                 \/ (last = None /\ first_ext.panic)
                 \/ (~pushed.ok /\ second_ext.panic)
        written == [state |-> st.state,
                    pages |-> pages2,
                    heads |-> StorageInsert(st.heads, para, new_head),
                    heads_by_id |-> StorageInsert(st.heads_by_id, new_message_idx, new_head)]
    IN  IF exceeds_max_message_size(msg, max_downward_message_size)
        THEN [res |-> "ExceedsMaxMessageSize", st |-> st]
        ELSE IF panic
        THEN [res |-> "Panic", st |-> st]
        ELSE [res |-> "Ok",
              st |-> update_state(written, para,
                        [ring_buffer_state |-> ring_buf2.state,
                         message_window_state |-> ext.w.state])]

\* Pallet::dmq_length
dmq_length(st, para) ==
    as_u32(MessageWindow_size(
        MessageWindow_with_state(dmp_queue_state(st, para).message_window_state, para)))

\* a faulty check_processed_downward_messages: processing the whole queue underflows
check_processed_downward_messages_le(st, para, processed_downward_messages) ==
    LET len == dmq_length(st, para) IN
    IF len > 0 /\ processed_downward_messages = 0
    THEN [res |-> "AdvancementRule", processed_downward_messages |-> 0, dmq_length |-> 0]
    ELSE IF len <= processed_downward_messages
    THEN [res |-> "Underflow",
          processed_downward_messages |-> processed_downward_messages,
          dmq_length |-> len]
    ELSE [res |-> "Ok", processed_downward_messages |-> 0, dmq_length |-> 0]

\* Pallet::check_processed_downward_messages
check_processed_downward_messages(st, para, processed_downward_messages) ==
    LET len == dmq_length(st, para) IN
    IF len > 0 /\ processed_downward_messages = 0
    THEN [res |-> "AdvancementRule", processed_downward_messages |-> 0, dmq_length |-> 0]
    ELSE IF len < processed_downward_messages
    THEN [res |-> "Underflow",
          processed_downward_messages |-> processed_downward_messages,
          dmq_length |-> len]
    ELSE [res |-> "Ok", processed_downward_messages |-> 0, dmq_length |-> 0]

(***************************************************************************)
(* Pallet::prune_dmq                                                       *)
(***************************************************************************)
\* a faulty split_off: the page keeps the pruned prefix, not the suffix
split_off_prefix(vec, at) == SubSeq(vec, 1, Len(vec) - at)

\* Vec::split_off(at): the elements from position `at` (0-based) on
split_off(vec, at) == SubSeq(vec, at + 1, Len(vec))

\* a faulty prune_dmq_pages: a page is dropped only when more than its count is pruned
RECURSIVE prune_dmq_pages_gt(_)
prune_dmq_pages_gt(l) ==
    IF l.messages_to_prune > 0 /\ RingBuffer_front(l.ring_buf) # None
    THEN LET first_used_page == RingBuffer_front(l.ring_buf)[1]
             page == StorageGet(l.pages, first_used_page, << >>)
             messages_in_page == Len(page)
         IN  IF l.messages_to_prune > messages_in_page
             THEN prune_dmq_pages_gt(
                    [messages_to_prune |-> l.messages_to_prune - messages_in_page,
                     message_window |-> MessageWindow_prune(l.message_window, messages_in_page).w,
                     pages |-> StorageRemove(l.pages, first_used_page),
                     ring_buf |-> RingBuffer_pop_front(l.ring_buf).rb,
                     pruned_message_count |-> l.pruned_message_count + messages_in_page])
             ELSE [messages_to_prune |-> 0,
                   message_window |-> MessageWindow_prune(l.message_window, l.messages_to_prune).w,
                   pages |-> StorageInsert(l.pages, first_used_page,
                                           split_off(page, l.messages_to_prune)),
                   ring_buf |-> l.ring_buf,
                   pruned_message_count |-> l.pruned_message_count + l.messages_to_prune]
    ELSE l

\* the `while messages_to_prune > 0` loop; l holds the loop's variables
RECURSIVE prune_dmq_pages(_)
prune_dmq_pages(l) ==
    IF l.messages_to_prune > 0 /\ RingBuffer_front(l.ring_buf) # None
    THEN LET first_used_page == RingBuffer_front(l.ring_buf)[1]
             page == StorageGet(l.pages, first_used_page, << >>)
             messages_in_page == Len(page)
         IN  IF l.messages_to_prune >= messages_in_page
             THEN prune_dmq_pages(
                    [messages_to_prune |-> l.messages_to_prune - messages_in_page,
                     message_window |-> MessageWindow_prune(l.message_window, messages_in_page).w,
                     pages |-> StorageRemove(l.pages, first_used_page),
                     ring_buf |-> RingBuffer_pop_front(l.ring_buf).rb,
                     pruned_message_count |-> l.pruned_message_count + messages_in_page])
             ELSE [messages_to_prune |-> 0,
                   message_window |-> MessageWindow_prune(l.message_window, l.messages_to_prune).w,
                   pages |-> StorageInsert(l.pages, first_used_page,
                                           split_off(page, l.messages_to_prune)),
                   ring_buf |-> l.ring_buf,
                   pruned_message_count |-> l.pruned_message_count + l.messages_to_prune]
    ELSE l

\* a faulty prune_dmq_heads: the head at the end index is removed as well
RECURSIVE prune_dmq_heads_through(_, _, _, _)
prune_dmq_heads_through(heads_by_id, para, message_idx, end) ==
    IF message_idx # end
    THEN prune_dmq_heads_through(
            StorageRemove(heads_by_id, ParaMessageIndex(para, message_idx)),
            para, wrapping_inc(message_idx), end)
    ELSE StorageRemove(heads_by_id, ParaMessageIndex(para, end))

\* the `while message_idx != first_mqc_key_to_remove.wrapping_add(count)` loop
RECURSIVE prune_dmq_heads(_, _, _, _)
prune_dmq_heads(heads_by_id, para, message_idx, end) ==
    IF message_idx # end
    THEN prune_dmq_heads(StorageRemove(heads_by_id, ParaMessageIndex(para, message_idx)),
                         para, wrapping_inc(message_idx), end)
    ELSE heads_by_id

\* a faulty prune_dmq: the branch of processed_downward_messages == 0 is missing
prune_dmq_unchecked(st, para, processed_downward_messages, debug_assertions) ==
    LET qs == dmp_queue_state(st, para)
        message_window == MessageWindow_with_state(qs.message_window_state, para)
        queue_length == MessageWindow_size(message_window)
        ring_buf == RingBuffer_with_state(qs.ring_buffer_state, para)
        first_mqc_key_to_remove == MessageWindow_first(message_window)[1].message_idx
        l == prune_dmq_pages(
                [messages_to_prune |-> processed_downward_messages,
                 message_window |-> message_window,
                 pages |-> st.pages,
                 ring_buf |-> ring_buf,
                 pruned_message_count |-> 0])
        written == [state |-> st.state,
                    pages |-> l.pages,
                    heads |-> st.heads,
                    heads_by_id |->
                        prune_dmq_heads(st.heads_by_id, para, first_mqc_key_to_remove,
                            wrapping_add(first_mqc_key_to_remove, l.pruned_message_count))]
    IN  IF queue_length = 0
        THEN [res |-> "Empty", count |-> 0, st |-> st]
        ELSE [res |-> "Pruned",
              count |-> l.pruned_message_count,
              st |-> update_state(written, para,
                        [ring_buffer_state |-> l.ring_buf.state,
                         message_window_state |-> l.message_window.state])]

\* res: Empty (early return), Pruned, or, in the branch of the warning, Warned
\* (debug_assert!(false) compiled out) or DebugAssert (debug_assert!(false)
\* panics: cfg(debug_assertions)); count is pruned_message_count
prune_dmq(st, para, processed_downward_messages, debug_assertions) ==
    LET qs == dmp_queue_state(st, para)
        message_window == MessageWindow_with_state(qs.message_window_state, para)
        queue_length == MessageWindow_size(message_window)
        ring_buf == RingBuffer_with_state(qs.ring_buffer_state, para)
        first_mqc_key_to_remove == MessageWindow_first(message_window)[1].message_idx
        l == prune_dmq_pages(
                [messages_to_prune |-> processed_downward_messages,
                 message_window |-> message_window,
                 pages |-> st.pages,
                 ring_buf |-> ring_buf,
                 pruned_message_count |-> 0])
        written == [state |-> st.state,
                    pages |-> l.pages,
                    heads |-> st.heads,
                    heads_by_id |->
                        prune_dmq_heads(st.heads_by_id, para, first_mqc_key_to_remove,
                            wrapping_add(first_mqc_key_to_remove, l.pruned_message_count))]
    IN  IF queue_length = 0
        THEN [res |-> "Empty", count |-> 0, st |-> st]
        ELSE IF processed_downward_messages = 0
        THEN [res |-> IF debug_assertions THEN "DebugAssert" ELSE "Warned",
              count |-> 0, st |-> st]
        ELSE [res |-> "Pruned",
              count |-> l.pruned_message_count,
              st |-> update_state(written, para,
                        [ring_buffer_state |-> l.ring_buf.state,
                         message_window_state |-> l.message_window.state])]

(***************************************************************************)
(* Pallet::clean_dmp_after_outgoing                                        *)
(***************************************************************************)
\* a faulty clean_dmp_pages: only the first page of the ring is removed
clean_dmp_pages_first(pages, keys) ==
    IF keys = << >> THEN pages ELSE StorageRemove(pages, Head(keys))

\* the `for page_idx in RingBuffer::with_state(..)` loop
RECURSIVE clean_dmp_pages(_, _)
clean_dmp_pages(pages, keys) ==
    IF keys = << >>
    THEN pages
    ELSE clean_dmp_pages(StorageRemove(pages, Head(keys)), Tail(keys))

clean_dmp_after_outgoing(st, outgoing_para) ==
    LET state == dmp_queue_state(st, outgoing_para) IN
    [state |-> st.state,
     pages |-> clean_dmp_pages(st.pages,
                  RingBufferIterator(
                      RingBuffer_with_state(state.ring_buffer_state, outgoing_para))),
     heads |-> StorageRemove(st.heads, outgoing_para),
     heads_by_id |-> st.heads_by_id]

(***************************************************************************)
(* Pallet::dmq_contents_bounded and Pallet::dmq_contents                   *)
(***************************************************************************)
\* a faulty dmq_contents_pages: the loop breaks one page late
RECURSIVE dmq_contents_pages_late(_, _, _, _)
dmq_contents_pages_late(pages, keys, page_count, pages_fetched) ==
    IF keys = << >> \/ page_count < pages_fetched
    THEN << >>
    ELSE StorageGet(pages, Head(keys), << >>)
            \o dmq_contents_pages_late(pages, Tail(keys), page_count, pages_fetched + 1)

\* the `for page_idx in ring_buf` loop with its `page_count == pages_fetched` break
RECURSIVE dmq_contents_pages(_, _, _, _)
dmq_contents_pages(pages, keys, page_count, pages_fetched) ==
    IF keys = << >> \/ page_count = pages_fetched
    THEN << >>
    ELSE StorageGet(pages, Head(keys), << >>)
            \o dmq_contents_pages(pages, Tail(keys), page_count, pages_fetched + 1)

dmq_contents_bounded(st, recipient, start_page_index, page_count) ==
    LET state == dmp_queue_state(st, recipient)
        ring_buf == RingBuffer_prune(
                        RingBuffer_with_state(state.ring_buffer_state, recipient),
                        start_page_index)
    IN  dmq_contents_pages(st.pages, RingBufferIterator(ring_buf), page_count, 0)

\* a faulty dmq_contents_bounded_storage: the ring with its pages skipped is stored
dmq_contents_bounded_stores_ring(st, recipient, start_page_index, page_count) ==
    LET state == dmp_queue_state(st, recipient)
        ring_buf == RingBuffer_prune(
                        RingBuffer_with_state(state.ring_buffer_state, recipient),
                        start_page_index)
    IN  update_state(st, recipient, [state EXCEPT !.ring_buffer_state = ring_buf.state])

\* the storage after dmq_contents_bounded: ring_buf is built from a copy of the
\* state, and the routine calls no insert, mutate or remove
dmq_contents_bounded_storage(st, recipient, start_page_index, page_count) == st

dmq_contents(st, recipient) ==
    LET state == dmp_queue_state(st, recipient) IN
    dmq_contents_bounded(st, recipient, 0,
        as_u32(RingBuffer_size(RingBuffer_with_state(state.ring_buffer_state, recipient))))

(***************************************************************************)
(* The state machine: the runtime calls the pallet's routines one at a     *)
(* time; each call is one step.  The getters (dmq_length, dmq_contents,    *)
(* dmq_contents_bounded, check_processed_downward_messages) write nothing: *)
(* their results in a state are the values of the operators above.         *)
(***************************************************************************)
\* op: the last call of a routine that writes storage: its name and result
NoOp == [name |-> "none", res |-> ""]

Init ==
    /\ DownwardMessageQueueState = [p \in Paras |-> QueueState_default]
    /\ DownwardMessageQueuePages = [k \in QueuePageIndexes |-> None]
    /\ DownwardMessageQueueHeads = [p \in Paras |-> None]
    /\ DownwardMessageQueueHeadsById = [k \in ParaMessageIndexes |-> None]
    /\ DmpPageCapacity \in 1 .. MaxPageCap
    /\ block_number = 0
    /\ sent = [p \in Paras |-> << >>]
    /\ pruned = [p \in Paras |-> 0]
    /\ op = NoOp

Persist(st) ==
    /\ DownwardMessageQueueState' = st.state
    /\ DownwardMessageQueuePages' = st.pages
    /\ DownwardMessageQueueHeads' = st.heads
    /\ DownwardMessageQueueHeadsById' = st.heads_by_id

TotalSent == Len(sent[1]) + Len(sent[2])
Budget(para) == IF para = 1 THEN MaxEnq ELSE 1

\* a sender queues its next message, or an oversized one
QueueDownwardMessage(para, msg, max) ==
    /\ Len(sent[para]) < Budget(para)
    /\ LET r == queue_downward_message(Storage, DmpPageCapacity, block_number, max, para, msg) IN
        /\ Persist(r.st)
        /\ sent' = IF r.res = "Ok"
                   THEN [sent EXCEPT ![para] = Append(@, [msg |-> msg, sent_at |-> block_number])]
                   ELSE sent
        /\ op' = [NoOp EXCEPT !.name = "queue_downward_message", !.res = r.res]
    /\ UNCHANGED << DmpPageCapacity, block_number, pruned >>

\* a para's candidate is enacted: its processed messages are pruned
PruneDmq(para, k, debug_assertions) ==
    \* debug_assertions is read only when processed_downward_messages is 0
    /\ debug_assertions => k = 0
    /\ LET r == prune_dmq(Storage, para, k, debug_assertions) IN
        /\ Persist(r.st)
        /\ pruned' = [pruned EXCEPT ![para] = @ + r.count]
        /\ op' = [NoOp EXCEPT !.name = "prune_dmq", !.res = r.res]
    /\ UNCHANGED << DmpPageCapacity, block_number, sent >>

\* the relay chain moves to its next block (in the model: after the first message)
NextBlock ==
    /\ block_number < MaxBlock
    /\ TotalSent = 1
    /\ block_number' = block_number + 1
    /\ UNCHANGED << DownwardMessageQueueState, DownwardMessageQueuePages,
                    DownwardMessageQueueHeads, DownwardMessageQueueHeadsById,
                    DmpPageCapacity, sent, pruned, op >>

Next ==
    \/ \E para \in Paras, max \in MaxSizes :
         \E msg \in {Msg(Len(sent[para])), BigMsg} : QueueDownwardMessage(para, msg, max)
    \/ \E para \in Paras, k \in U32, dbg \in BOOLEAN : PruneDmq(para, k, dbg)
    \/ NextBlock

Spec == Init /\ [][Next]_vars

(***************************************************************************)
(* The state machine with offboarding: a session change retires a para.    *)
(***************************************************************************)
\* perform_outgoing_para_cleanup retires the para
CleanDmpAfterOutgoing(para) ==
    /\ Persist(clean_dmp_after_outgoing(Storage, para))
    /\ op' = [NoOp EXCEPT !.name = "clean_dmp_after_outgoing"]
    /\ UNCHANGED << DmpPageCapacity, block_number, sent, pruned >>

RetireBudget(para) == IF para = 1 THEN MaxEnqRetire ELSE 1

NextRetire ==
    \/ \E para \in Paras, max \in MaxSizes :
            /\ Len(sent[para]) < RetireBudget(para)
            /\ QueueDownwardMessage(para, Msg(Len(sent[para])), max)
    \/ \E para \in Paras, k \in U32 : PruneDmq(para, k, FALSE)
    \/ \E para \in Paras : CleanDmpAfterOutgoing(para)

SpecRetire == Init /\ [][NextRetire]_vars

(***************************************************************************)
(* Pallet::assert_storage_consistency_exhaustive: the values it compares   *)
(***************************************************************************)
RECURSIVE Flatten(_)
Flatten(seqs) == IF seqs = << >> THEN << >> ELSE Head(seqs) \o Flatten(Tail(seqs))

\* messages_in_pages: the pages of the ring buffer, flattened
messages_in_pages(st, para) ==
    LET keys == RingBufferIterator(
                    RingBuffer_with_state(dmp_queue_state(st, para).ring_buffer_state, para))
    IN  Flatten([i \in 1 .. Len(keys) |-> StorageGet(st.pages, keys[i], << >>)])

\* computed_mqc_heads: the chain replayed over `messages` from `mqc_head`
RECURSIVE computed_mqc_heads(_, _)
computed_mqc_heads(mqc_head, messages) ==
    IF messages = << >>
    THEN << >>
    ELSE LET new_head == BlakeTwo256_hash_of(mqc_head, Head(messages).sent_at,
                                             T_Hashing_hash_of(Head(messages).msg))
         IN  << new_head >> \o computed_mqc_heads(new_head, Tail(messages))

\* mqc_head_key_range / page_key_range: `count` keys from `start` on
RECURSIVE key_range(_, _)
key_range(idx, end) ==
    IF idx # end THEN << idx >> \o key_range(wrapping_inc(idx), end) ELSE << >>
mqc_head_key_range(para, start, count) ==
    LET r == key_range(start, wrapping_add(start, count)) IN
    [i \in 1 .. Len(r) |-> ParaMessageIndex(para, r[i])]

\* all_mqc_heads: the stored heads of the keys of the window (filter_map of try_get)
all_mqc_heads(st, para) ==
    LET window == MessageWindow_with_state(dmp_queue_state(st, para).message_window_state, para)
        keys == IF MessageWindow_size(window) = 0 THEN << >>
                ELSE mqc_head_key_range(para, MessageWindow_first(window)[1].message_idx,
                                        MessageWindow_size(window))
    IN  Flatten([i \in 1 .. Len(keys) |-> st.heads_by_id[keys[i]]])

(***************************************************************************)
(* Views of the state used by the properties                               *)
(***************************************************************************)
Window(para) ==
    MessageWindow_with_state(DownwardMessageQueueState[para].message_window_state, para)
Ring(para) ==
    RingBuffer_with_state(DownwardMessageQueueState[para].ring_buffer_state, para)
\* the messages sent to para and not yet removed from its pages
Live(para) == SubSeq(sent[para], pruned[para] + 1, Len(sent[para]))

(***************************************************************************)
(* C1: for every para, the size of the message window equals the number of *)
(* messages stored in the pages head_page_idx .. tail_page_idx - 1.        *)
(***************************************************************************)
C1_WindowSizeIsMessageCount ==
    \A para \in Paras :
        MessageWindow_size(Window(para)) = Len(messages_in_pages(Storage, para))

(***************************************************************************)
(* C2: dmq_contents_bounded(para, 0, ring size) returns the messages sent  *)
(* to para and not pruned, payload and sent_at, in the order sent.  The    *)
(* page count is a u32: the property speaks of the ring sizes a u32 holds. *)
(***************************************************************************)
C2_ContentsIsFifo ==
    \A para \in Paras :
        RingBuffer_size(Ring(para)) \in U32 =>
            dmq_contents_bounded(Storage, para, 0, RingBuffer_size(Ring(para))) = Live(para)

\* some messages were pruned and the unpruned ones span more than one page
C2_Witness ==
    /\ pruned[1] > 0
    /\ RingBuffer_size(Ring(1)) \in 2 .. (U32Space - 1)
    /\ Len(Live(1)) >= 3
    /\ dmq_contents_bounded(Storage, 1, 0, RingBuffer_size(Ring(1))) = Live(1)

(***************************************************************************)
(* C3: prune_dmq(para, k) with 1 <= k <= dmq_length(para) removes the k    *)
(* oldest messages: dmq_length drops by k, the pages whose whole count     *)
(* fits in k are deleted and the ring's head moves past them, the page     *)
(* after them holds its unconsumed suffix, and no other page changes.      *)
(***************************************************************************)
C3_PruneRemovesOldest ==
    \A para \in Paras : \A k \in 1 .. dmq_length(Storage, para) :
        LET r == prune_dmq(Storage, para, k, FALSE)
            keys == RingBufferIterator(Ring(para))
            page(i) == StorageGet(DownwardMessageQueuePages, keys[i], << >>)
            before(i) == Len(Flatten([j \in 1 .. (i - 1) |-> page(j)]))
            whole == {i \in 1 .. Len(keys) : before(i) + Len(page(i)) <= k}
            n == Cardinality(whole)
            all == messages_in_pages(Storage, para)
            ring == dmp_queue_state(r.st, para).ring_buffer_state
        IN  /\ r.res = "Pruned"
            /\ r.count = k
            /\ dmq_length(r.st, para) = dmq_length(Storage, para) - k
            /\ messages_in_pages(r.st, para) = SubSeq(all, k + 1, Len(all))
            /\ whole = 1 .. n
            /\ ring.head_page_idx = wrapping_add(Ring(para).state.head_page_idx, n)
            /\ ring.tail_page_idx = Ring(para).state.tail_page_idx
            /\ \A i \in whole : ~StorageExists(r.st.pages, keys[i])
            /\ n < Len(keys) =>
                r.st.pages[keys[n + 1]]
                    = Some(SubSeq(page(n + 1), k - before(n + 1) + 1, Len(page(n + 1))))
            /\ \A key \in QueuePageIndexes :
                (\A i \in 1 .. Min(n + 1, Len(keys)) : key # keys[i])
                    => r.st.pages[key] = DownwardMessageQueuePages[key]

\* a prune has deleted the first page of the ring and left the suffix of the second
C3_Witness ==
    /\ op = [NoOp EXCEPT !.name = "prune_dmq", !.res = "Pruned"]
    /\ DmpPageCapacity = 2
    /\ Len(sent[1]) = 4
    /\ pruned[1] = 3
    /\ Ring(1).state = [head_page_idx |-> 1, tail_page_idx |-> 2]
    /\ DownwardMessageQueuePages[QueuePageIndex(1, 0)] = None
    /\ DownwardMessageQueuePages[QueuePageIndex(1, 1)] = Some(<< sent[1][4] >>)

(***************************************************************************)
(* C4: check_processed_downward_messages(para, k) is Underflow, carrying k *)
(* and dmq_length, exactly when k > dmq_length; AdvancementRule exactly    *)
(* when dmq_length > 0 and k = 0; Ok in every other case.                  *)
(***************************************************************************)
C4_CheckProcessed ==
    \A para \in Paras : \A k \in U32 :
        LET r == check_processed_downward_messages(Storage, para, k)
            len == dmq_length(Storage, para)
        IN  /\ r.res = "Underflow" <=> k > len
            /\ r.res = "Underflow" => r.processed_downward_messages = k /\ r.dmq_length = len
            /\ r.res = "AdvancementRule" <=> (len > 0 /\ k = 0)
            /\ r.res = "Ok" <=> (k <= len /\ ~(len > 0 /\ k = 0))

\* a queue of two messages, for which the three results all occur
C4_Witness ==
    /\ dmq_length(Storage, 1) = 2
    /\ Len(Live(1)) = 2
    /\ check_processed_downward_messages(Storage, 1, 0).res = "AdvancementRule"
    /\ check_processed_downward_messages(Storage, 1, 2).res = "Ok"
    /\ check_processed_downward_messages(Storage, 1, 3)
        = [res |-> "Underflow", processed_downward_messages |-> 3, dmq_length |-> 2]

(***************************************************************************)
(* C5: queue_downward_message is Err(ExceedsMaxMessageSize) exactly when   *)
(* the length of the message exceeds max_downward_message_size (a message  *)
(* of exactly the maximum is not rejected), and then it writes nothing.    *)
(***************************************************************************)
C5_ExceedsMaxMessageSize ==
    \A para \in Paras : \A max \in U32 : \A msg \in {Msg(Len(sent[para])), BigMsg} :
        LET r == queue_downward_message(Storage, DmpPageCapacity, block_number, max, para, msg)
        IN  /\ r.res = "ExceedsMaxMessageSize" <=> msg.len > max
            /\ r.res = "ExceedsMaxMessageSize" => r.st = Storage

\* a message was just rejected by a non-empty queue that takes a message of
\* exactly the maximum and rejects the same message under a maximum one less
C5_Witness ==
    /\ op = [NoOp EXCEPT !.name = "queue_downward_message", !.res = "ExceedsMaxMessageSize"]
    /\ Len(Live(1)) = 1
    /\ Msg(Len(sent[1])).len = 2
    /\ queue_downward_message(Storage, DmpPageCapacity, block_number, 2, 1,
                              Msg(Len(sent[1]))).res = "Ok"
    /\ queue_downward_message(Storage, DmpPageCapacity, block_number, 1, 1,
                              Msg(Len(sent[1]))).res = "ExceedsMaxMessageSize"

(***************************************************************************)
(* C6: on a para whose queue started unused and was never pruned, after N  *)
(* accepted messages under page capacity P the window size is N, the ring  *)
(* holds ceil(N / P) pages, and the pages are the messages in the order    *)
(* sent, P to a page with the remainder on the tail page (each message     *)
(* went to the tail page when it had room, else alone into a new page).    *)
(***************************************************************************)
C6_PagesOfUnprunedQueue ==
    \A para \in Paras :
        pruned[para] = 0 =>
            LET N == Len(sent[para])
                P == DmpPageCapacity
                keys == RingBufferIterator(Ring(para))
            IN  /\ MessageWindow_size(Window(para)) = N
                /\ RingBuffer_size(Ring(para)) = (N + P - 1) \div P
                /\ Len(keys) = (N + P - 1) \div P
                /\ \A i \in 1 .. Len(keys) :
                    DownwardMessageQueuePages[keys[i]]
                        = Some(SubSeq(sent[para], (i - 1) * P + 1, Min(i * P, N)))

\* the chain heads of the messages sent to para, in the order sent
HeadsOfSent(para) == computed_mqc_heads(HashZero, sent[para])
\* the chain head of the last message pruned from para (zero when none was)
HeadOfLastPruned(para) ==
    IF pruned[para] = 0 THEN HashZero ELSE HeadsOfSent(para)[pruned[para]]

(***************************************************************************)
(* C7: the heads stored at the indices of the window, in window order, are *)
(* the chain heads computed when the unpruned messages were appended, and  *)
(* replaying the stored messages from the chain head of the last pruned    *)
(* message (zero if none was pruned) gives the same heads.                 *)
(***************************************************************************)
C7_StoredHeadsReplay ==
    \A para \in Paras :
        /\ all_mqc_heads(Storage, para)
            = SubSeq(HeadsOfSent(para), pruned[para] + 1, Len(sent[para]))
        /\ all_mqc_heads(Storage, para)
            = computed_mqc_heads(HeadOfLastPruned(para), messages_in_pages(Storage, para))

\* message_idx lies in the window [first_message_idx, free_message_idx)
InWindow(w, message_idx) ==
    wrapping_sub(message_idx, w.state.first_message_idx) < MessageWindow_size(w)

(***************************************************************************)
(* C8: a head is stored at (para, i) exactly when i lies in the window of  *)
(* para, and prune_dmq deletes exactly the heads at the indices from the   *)
(* old first index up to the count of pruned messages, wrapping included.  *)
(***************************************************************************)
C8_HeadsExistInWindow ==
    \A para \in Paras :
        /\ \A i \in Idx :
            StorageExists(DownwardMessageQueueHeadsById, ParaMessageIndex(para, i))
                <=> InWindow(Window(para), i)
        /\ \A k \in U32 :
            LET r == prune_dmq(Storage, para, k, FALSE) IN
            \A i \in Idx :
                LET key == ParaMessageIndex(para, i) IN
                IF /\ InWindow(Window(para), i)
                   /\ wrapping_sub(i, Window(para).state.first_message_idx) < r.count
                THEN ~StorageExists(r.st.heads_by_id, key)
                ELSE r.st.heads_by_id[key] = DownwardMessageQueueHeadsById[key]

(***************************************************************************)
(* C9: a page is stored at (para, p) only if p lies in the ring of para,   *)
(* from head_page_idx up to, not including, tail_page_idx.                 *)
(***************************************************************************)
C9_PagesExistInRing ==
    \A key \in QueuePageIndexes :
        StorageExists(DownwardMessageQueuePages, key) =>
            wrapping_sub(key.page_idx, Ring(key.para_id).state.head_page_idx)
                < RingBuffer_size(Ring(key.para_id))

\* a prune has just deleted pages of a ring that wraps around the index space
C9_Witness ==
    /\ op = [NoOp EXCEPT !.name = "prune_dmq", !.res = "Pruned"]
    /\ Ring(1).state.tail_page_idx < Ring(1).state.head_page_idx
    /\ StorageExists(DownwardMessageQueuePages, QueuePageIndex(1, IdxSpace - 1))
    /\ StorageExists(DownwardMessageQueuePages, QueuePageIndex(1, 0))
    /\ ~StorageExists(DownwardMessageQueuePages, QueuePageIndex(1, IdxSpace - 2))

(***************************************************************************)
(* C10: prune_dmq(para, k) with k >= dmq_length(para) does not fault and   *)
(* leaves the window and the ring of para empty; the same call again       *)
(* changes nothing.                                                        *)
(***************************************************************************)
C10_PruneAllEmpties ==
    \A para \in Paras : \A k \in U32 : \A debug_assertions \in BOOLEAN :
        k >= dmq_length(Storage, para) =>
            LET r == prune_dmq(Storage, para, k, debug_assertions)
                qs == dmp_queue_state(r.st, para)
            IN  /\ r.res # "DebugAssert"
                /\ qs.message_window_state.first_message_idx
                    = qs.message_window_state.free_message_idx
                /\ qs.ring_buffer_state.head_page_idx = qs.ring_buffer_state.tail_page_idx
                /\ prune_dmq(r.st, para, k, debug_assertions).st = r.st

\* enqueues and prunes only, for the reads of the pages: one sender per para
\* queues its next message, and the consumer prunes
ContentsBudget(para) == IF para = 1 THEN MaxEnqContents ELSE 1

NextContents ==
    \/ \E para \in Paras, max \in MaxSizes :
            /\ Len(sent[para]) < ContentsBudget(para)
            /\ QueueDownwardMessage(para, Msg(Len(sent[para])), max)
    \/ \E para \in Paras, k \in U32 : PruneDmq(para, k, FALSE)

SpecContents == Init /\ [][NextContents]_vars

(***************************************************************************)
(* C11: dmq_contents_bounded(para, s, c) is the concatenation, in order,   *)
(* of the pages at the offsets s .. min(s + c, ring size) - 1 from the     *)
(* head of the ring, so at most c * DmpPageCapacity messages; it is empty  *)
(* for a para never used, an empty queue, c = 0 and s >= ring size.        *)
(***************************************************************************)
C11_ContentsBounded ==
    \A para \in Paras :
        LET keys == RingBufferIterator(Ring(para))
            stored == [i \in 1 .. Len(keys) |->
                        StorageGet(DownwardMessageQueuePages, keys[i], << >>)]
            st == Storage
        IN  \A s \in U32 : \A c \in U32 :
                LET hi == Min(s + c, Len(keys))
                    r == dmq_contents_bounded(st, para, s, c)
                IN  /\ r = Flatten(SubSeq(stored, s + 1, hi))
                    /\ Len(r) <= c * DmpPageCapacity
                    /\ (c = 0 \/ s >= Len(keys) \/ sent[para] = << >>) => r = << >>

\* three pages, the first one trimmed by a prune: reads inside and past the ring
C11_Witness ==
    /\ DmpPageCapacity = 2
    /\ pruned[1] = 1
    /\ Len(sent[1]) = 5
    /\ RingBuffer_size(Ring(1)) = 3
    /\ dmq_contents_bounded(Storage, 1, 1, 1) = SubSeq(sent[1], 3, 4)
    /\ dmq_contents_bounded(Storage, 1, 2, 3) = SubSeq(sent[1], 5, 5)
    /\ dmq_contents_bounded(Storage, 1, 0, 2) = SubSeq(sent[1], 2, 4)
    /\ dmq_contents_bounded(Storage, 1, 3, 1) = << >>
    /\ dmq_contents_bounded(Storage, 2, 0, 1) = << >>

(***************************************************************************)
(* C12: when dmq_length(para) > 0, page_count > 0 and start_page_index is  *)
(* smaller than the ring size, dmq_contents_bounded returns a message.     *)
(***************************************************************************)
C12_ContentsNotEmpty ==
    \A para \in Paras : \A s \in U32 : \A c \in U32 :
        (dmq_length(Storage, para) > 0 /\ c > 0 /\ s < RingBuffer_size(Ring(para)))
            => Len(dmq_contents_bounded(Storage, para, s, c)) >= 1

\* a prune has just emptied the first page and trimmed the second; the last
\* page of the ring is read
C12_Witness ==
    /\ op = [NoOp EXCEPT !.name = "prune_dmq", !.res = "Pruned"]
    /\ DmpPageCapacity = 2
    /\ pruned[1] = 3
    /\ dmq_length(Storage, 1) = 3
    /\ RingBuffer_size(Ring(1)) = 2
    /\ Len(dmq_contents_bounded(Storage, 1, 1, 1)) = 2
    /\ Len(dmq_contents_bounded(Storage, 1, 0, 1)) = 1

(***************************************************************************)
(* C13: after clean_dmp_after_outgoing(para) no page is stored at any page *)
(* index of para and the global MQC head of para is removed (it reads as   *)
(* the zero default).                                                      *)
(***************************************************************************)
C13_RetireRemovesPagesAndHead ==
    \A para \in Paras :
        LET r == clean_dmp_after_outgoing(Storage, para) IN
        /\ \A i \in Idx : ~StorageExists(r.pages, QueuePageIndex(para, i))
        /\ ~StorageExists(r.heads, para)
        /\ StorageGet(r.heads, para, HashZero) = HashZero

\* para 1 has just been retired with three pages in its ring
C13_Witness ==
    /\ op = [NoOp EXCEPT !.name = "clean_dmp_after_outgoing"]
    /\ RingBuffer_size(Ring(1)) = 3
    /\ Len(sent[1]) >= 3
    /\ \A i \in Idx : ~StorageExists(DownwardMessageQueuePages, QueuePageIndex(1, i))
    /\ ~StorageExists(DownwardMessageQueueHeads, 1)
    /\ StorageExists(DownwardMessageQueueHeads, 2)

(***************************************************************************)
(* C14: after clean_dmp_after_outgoing(para), also of a para that holds    *)
(* messages, dmq_length(para) is 0.                                        *)
(***************************************************************************)
C14_RetiredLengthIsZero ==
    \A para \in Paras :
        dmq_length(clean_dmp_after_outgoing(Storage, para), para) = 0

(***************************************************************************)
(* C15: after clean_dmp_after_outgoing(para) the state of para is that of  *)
(* a para never used: the ring is empty (head_page_idx = tail_page_idx),   *)
(* the window is empty and no per-message MQC head of para is stored.      *)
(***************************************************************************)
C15_RetireDestroysAllState ==
    \A para \in Paras :
        LET r == clean_dmp_after_outgoing(Storage, para)
            qs == dmp_queue_state(r, para)
        IN  /\ qs.ring_buffer_state.head_page_idx = qs.ring_buffer_state.tail_page_idx
            /\ qs.message_window_state.first_message_idx
                = qs.message_window_state.free_message_idx
            /\ \A i \in Idx : ~StorageExists(r.heads_by_id, ParaMessageIndex(para, i))

(***************************************************************************)
(* The routines of the pallet as operations on one para: a and b are the   *)
(* arguments (a message is the sender's next one, a = 0, or an oversized   *)
(* one, a = 1).  Apply gives the storage after the call and its result.    *)
(***************************************************************************)
PageArgs == {<< 0, 1 >>, << 1, 1 >>, << 0, 2 >>}
Counts == {0, 1, 3}
Operation(name, para, a, b) == [name |-> name, para |-> para, a |-> a, b |-> b]
OpsOn(para) ==
    {Operation("queue_downward_message", para, a, max) : a \in {0, 1}, max \in MaxSizes}
    \cup {Operation("prune_dmq", para, k, 0) : k \in Counts}
    \cup {Operation("check_processed_downward_messages", para, k, 0) : k \in Counts}
    \cup {Operation("dmq_contents_bounded", para, x[1], x[2]) : x \in PageArgs}
    \cup {Operation(name, para, 0, 0) :
            name \in {"dmq_length", "dmq_contents", "clean_dmp_after_outgoing"}}

\* the calls that only read, with every u32 argument
ReadsOn(para) ==
    {Operation("check_processed_downward_messages", para, k, 0) : k \in U32}
    \cup {Operation("dmq_contents_bounded", para, x, c) : x \in U32, c \in U32}
    \cup {Operation(name, para, 0, 0) : name \in {"dmq_length", "dmq_contents"}}

Apply(st, o) ==
    CASE o.name = "queue_downward_message" ->
            LET r == queue_downward_message(st, DmpPageCapacity, block_number, o.b, o.para,
                        IF o.a = 0 THEN Msg(Len(sent[o.para])) ELSE BigMsg)
            IN  [st |-> r.st, res |-> << r.res >>]
      [] o.name = "prune_dmq" ->
            LET r == prune_dmq(st, o.para, o.a, FALSE) IN [st |-> r.st, res |-> << r.res >>]
      [] o.name = "check_processed_downward_messages" ->
            [st |-> st, res |-> << check_processed_downward_messages(st, o.para, o.a) >>]
      [] o.name = "dmq_contents_bounded" ->
            [st |-> dmq_contents_bounded_storage(st, o.para, o.a, o.b),
             res |-> dmq_contents_bounded(st, o.para, o.a, o.b)]
      [] o.name = "dmq_length" ->
            [st |-> st, res |-> << dmq_length(st, o.para) >>]
      [] o.name = "dmq_contents" ->
            [st |-> dmq_contents_bounded_storage(st, o.para, 0,
                        as_u32(RingBuffer_size(RingBuffer_with_state(
                            dmp_queue_state(st, o.para).ring_buffer_state, o.para)))),
             res |-> dmq_contents(st, o.para)]
      [] o.name = "clean_dmp_after_outgoing" ->
            [st |-> clean_dmp_after_outgoing(st, o.para), res |-> << >>]

\* what the storage st holds for para
StorageOf(st, para) ==
    [state |-> st.state[para],
     pages |-> [i \in Idx |-> st.pages[QueuePageIndex(para, i)]],
     heads |-> st.heads[para],
     heads_by_id |-> [i \in Idx |-> st.heads_by_id[ParaMessageIndex(para, i)]]]

(***************************************************************************)
(* The state machine of two paras that are both sent messages, pruned and  *)
(* retired; the history of the calls (op) is not kept.                     *)
(***************************************************************************)
Call(o) ==
    /\ Persist(Apply(Storage, o).st)
    /\ UNCHANGED << DmpPageCapacity, block_number, pruned, op >>

PairBudget(para) == IF para = 1 THEN MaxEnqPair ELSE 1

PairQueueDownwardMessage(para, max) ==
    LET o == Operation("queue_downward_message", para, 0, max) IN
    /\ Len(sent[para]) < PairBudget(para)
    /\ Call(o)
    /\ sent' = IF Apply(Storage, o).res = << "Ok" >>
               THEN [sent EXCEPT ![para] = Append(@, [msg |-> Msg(Len(sent[para])),
                                                      sent_at |-> block_number])]
               ELSE sent

PairPruneDmq(para, k) ==
    Call(Operation("prune_dmq", para, k, 0)) /\ UNCHANGED sent

PairCleanDmpAfterOutgoing(para) ==
    Call(Operation("clean_dmp_after_outgoing", para, 0, 0)) /\ UNCHANGED sent

\* dmq_length, dmq_contents, dmq_contents_bounded, check_processed_downward_messages
PairRead(o) ==
    Call(o) /\ UNCHANGED sent

NextPair ==
    \/ \E para \in Paras, max \in MaxSizes : PairQueueDownwardMessage(para, max)
    \/ \E para \in Paras, k \in U32 : PairPruneDmq(para, k)
    \/ \E para \in Paras : PairCleanDmpAfterOutgoing(para)
    \/ \E para \in Paras : \E o \in ReadsOn(para) : PairRead(o)

SpecPair == Init /\ [][NextPair]_vars

(***************************************************************************)
(* C16: a routine called for para X leaves the QueueState, the pages, the  *)
(* global head and the per-message heads of every other para Y unchanged,  *)
(* and two calls for different paras give the same storage and the same    *)
(* results in either order.                                                *)
(***************************************************************************)
C16_ParasAreIndependent ==
    \A X \in Paras : \A Y \in Paras \ {X} : \A a \in OpsOn(X) :
        /\ StorageOf(Apply(Storage, a).st, Y) = StorageOf(Storage, Y)
        /\ X < Y =>
            \A b \in OpsOn(Y) :
                LET a1 == Apply(Storage, a)
                    b2 == Apply(a1.st, b)
                    b1 == Apply(Storage, b)
                    a2 == Apply(b1.st, a)
                IN  /\ b2.st = a2.st
                    /\ a1.res = a2.res
                    /\ b1.res = b2.res

\* both paras hold messages, and calls that write for both of them commute
C16_Witness ==
    /\ Len(messages_in_pages(Storage, 1)) >= 2
    /\ Len(messages_in_pages(Storage, 2)) = 1
    /\ LET a == Operation("prune_dmq", 1, 1, 0)
           b == Operation("clean_dmp_after_outgoing", 2, 0, 0)
       IN  /\ Apply(Apply(Storage, a).st, b).st = Apply(Apply(Storage, b).st, a).st
           /\ Apply(Storage, a).st # Storage
           /\ Apply(Storage, b).st # Storage
           /\ StorageOf(Apply(Storage, a).st, 2) = StorageOf(Storage, 2)
           /\ StorageOf(Apply(Storage, b).st, 1) = StorageOf(Storage, 1)

Round(para, k) ==
    /\ check_processed_downward_messages(Storage, para, k).res = "Ok"
    /\ LET r == prune_dmq(Storage, para, k, FALSE) IN
        /\ Persist(r.st)
        /\ pruned' = [pruned EXCEPT ![para] = @ + r.count]
        /\ op' = [NoOp EXCEPT !.name = "round", !.res = r.res]
    /\ UNCHANGED << DmpPageCapacity, block_number, sent >>

NextRounds ==
    \/ op.name # "round" /\ NextRetire
    \/ \E para \in Paras, k \in U32 : Round(para, k)

\* the consumer of a para goes on with its rounds
SpecRounds ==
    /\ Init
    /\ [][NextRounds]_vars
    /\ \A para \in Paras : WF_vars(\E k \in U32 : Round(para, k))

\* a round of para with count k that starts with dmq_length > 0 lowers dmq_length
\* by k (Round stores what prune_dmq returns)
RoundDecreases(para, k) ==
    (check_processed_downward_messages(Storage, para, k).res = "Ok"
        /\ dmq_length(Storage, para) > 0)
        => /\ k >= 1
           /\ dmq_length(prune_dmq(Storage, para, k, FALSE).st, para)
                = dmq_length(Storage, para) - k

(***************************************************************************)
(* C18: once the senders have stopped, every round (a count accepted by    *)
(* check_processed_downward_messages, then pruned) that starts with        *)
(* dmq_length > 0 lowers dmq_length by exactly its count, and the rounds   *)
(* lead to dmq_length = 0, also for a para retired and used again.         *)
(***************************************************************************)
C18_RoundsDrainTheQueue ==
    /\ [](\A para \in Paras : \A k \in U32 : RoundDecreases(para, k))
    /\ \A para \in Paras : (op.name = "round") ~> (dmq_length(Storage, para) = 0)

(***************************************************************************)
(* The state machine of one RingBuffer and one MessageWindow, those of     *)
(* para 1, on which the methods of ringbuf.rs are called one at a time.    *)
(* The object starts in any of its states; a method that panics leaves     *)
(* nothing behind.                                                         *)
(***************************************************************************)
RingBufferStates == [head_page_idx : Idx, tail_page_idx : Idx]
MessageWindowStates == [first_message_idx : Idx, free_message_idx : Idx]

InitRingBuf ==
    /\ \E rs \in RingBufferStates, ws \in MessageWindowStates :
        /\ rs = RingBufferState_default \/ ws = MessageWindowState_default
        /\ DownwardMessageQueueState =
            [p \in Paras |-> IF p = 1
                             THEN [ring_buffer_state |-> rs, message_window_state |-> ws]
                             ELSE QueueState_default]
    /\ DownwardMessageQueuePages = [k \in QueuePageIndexes |-> None]
    /\ DownwardMessageQueueHeads = [p \in Paras |-> None]
    /\ DownwardMessageQueueHeadsById = [k \in ParaMessageIndexes |-> None]
    /\ DmpPageCapacity = 1
    /\ block_number = 0
    /\ sent = [p \in Paras |-> << >>]
    /\ pruned = [p \in Paras |-> 0]
    /\ op = NoOp

\* the method returned: its object is kept
Returned(name, ring_buffer_state, message_window_state) ==
    /\ DownwardMessageQueueState' =
        [DownwardMessageQueueState EXCEPT
            ![1] = [ring_buffer_state |-> ring_buffer_state,
                    message_window_state |-> message_window_state]]
    /\ op' = [NoOp EXCEPT !.name = name, !.res = "Ok"]

\* the method panicked
Panicked(name) ==
    /\ op' = [NoOp EXCEPT !.name = name, !.res = "Panic"]
    /\ UNCHANGED DownwardMessageQueueState

RingBufferExtend ==
    LET e == RingBuffer_extend(Ring(1)) IN
    IF e.panic
    THEN Panicked("RingBuffer::extend")
    ELSE Returned("RingBuffer::extend", e.rb.state, Window(1).state)

RingBufferPrune(count) ==
    Returned("RingBuffer::prune", RingBuffer_prune(Ring(1), count).state, Window(1).state)

RingBufferPopFront ==
    Returned("RingBuffer::pop_front", RingBuffer_pop_front(Ring(1)).rb.state, Window(1).state)

MessageWindowExtend(count) ==
    LET e == MessageWindow_extend(Window(1), count) IN
    IF e.panic
    THEN Panicked("MessageWindow::extend")
    ELSE Returned("MessageWindow::extend", Ring(1).state, e.w.state)

MessageWindowPrune(count) ==
    Returned("MessageWindow::prune", Ring(1).state, MessageWindow_prune(Window(1), count).w.state)

NextRingBuf ==
    /\ UNCHANGED << DownwardMessageQueuePages, DownwardMessageQueueHeads,
                    DownwardMessageQueueHeadsById, DmpPageCapacity, block_number,
                    sent, pruned >>
    /\ \/ Window(1).state = MessageWindowState_default /\ RingBufferExtend
       \/ Window(1).state = MessageWindowState_default /\ RingBufferPopFront
       \/ \E count \in U32 :
            Window(1).state = MessageWindowState_default /\ RingBufferPrune(count)
       \/ \E count \in Idx :
            Ring(1).state = RingBufferState_default /\ MessageWindowExtend(count)
       \/ \E count \in Idx :
            Ring(1).state = RingBufferState_default /\ MessageWindowPrune(count)

SpecRingBuf == InitRingBuf /\ [][NextRingBuf]_vars

C20_MessageWindowExtend ==
    \A count \in 1 .. (IdxSpace - 1) :
        LET w == Window(1)
            e == MessageWindow_extend(w, count)
        IN  ~e.panic =>
                /\ MessageWindow_size(e.w) = MessageWindow_size(w) + count
                /\ e.ret = ParaMessageIndex(1, (w.state.free_message_idx + count - 1) % IdxSpace)

(***************************************************************************)
(* C21: an accepted message sets the global MQC head of its para to the    *)
(* hash of (head before, block number, hash of the message), the head      *)
(* before being zero for a para never sent to; so the global head is the   *)
(* chain over all messages ever accepted.  prune_dmq never changes a       *)
(* global head, whatever it removes.                                       *)
(***************************************************************************)
C21_GlobalHead ==
    \A para \in Paras :
        LET head == StorageGet(DownwardMessageQueueHeads, para, HashZero) IN
        /\ sent[para] = << >> => DownwardMessageQueueHeads[para] = None
        /\ sent[para] # << >> => head = HeadsOfSent(para)[Len(sent[para])]
        /\ \A max \in MaxSizes :
            LET msg == Msg(Len(sent[para]))
                r == queue_downward_message(Storage, DmpPageCapacity, block_number,
                                            max, para, msg)
            IN  r.res = "Ok" =>
                    /\ r.st.heads[para]
                        = Some(BlakeTwo256_hash_of(head, block_number, T_Hashing_hash_of(msg)))
                    /\ \A other \in Paras \ {para} :
                        r.st.heads[other] = DownwardMessageQueueHeads[other]
        /\ \A k \in U32 : \A debug_assertions \in BOOLEAN :
            prune_dmq(Storage, para, k, debug_assertions).st.heads = DownwardMessageQueueHeads

\* the whole queue of three messages, sent in two blocks, has just been pruned
\* and the global head is still the chain over the three
C21_Witness ==
    /\ op = [NoOp EXCEPT !.name = "prune_dmq", !.res = "Pruned"]
    /\ Len(sent[1]) = 3
    /\ pruned[1] = 3
    /\ sent[1][1].sent_at = 0
    /\ sent[1][3].sent_at = 1
    /\ dmq_length(Storage, 1) = 0
    /\ DownwardMessageQueueHeads[1] = Some(HeadsOfSent(1)[3])

(***************************************************************************)
(* C22: prune_dmq writes nothing when the queue of the para is empty, for  *)
(* every count, and when the count is 0 on a queue that is not empty; in   *)
(* the second case it only warns where debug assertions are compiled out   *)
(* and fails debug_assert!(false) where they are compiled in.              *)
(***************************************************************************)
C22_PruneNoOp ==
    \A para \in Paras : \A k \in U32 : \A debug_assertions \in BOOLEAN :
        LET r == prune_dmq(Storage, para, k, debug_assertions)
            queue_length == MessageWindow_size(Window(para))
        IN  /\ queue_length = 0 => (r.res = "Empty" /\ r.st = Storage)
            /\ Live(para) = << >> => r.st = Storage
            /\ (queue_length > 0 /\ k = 0) =>
                /\ r.res = (IF debug_assertions THEN "DebugAssert" ELSE "Warned")
                /\ r.st = Storage
            /\ r.res \in {"DebugAssert", "Warned"} => (queue_length > 0 /\ k = 0)

\* prune_dmq(1, 0) has just warned on a queue of two messages; where debug
\* assertions are compiled in, the same call fails its assertion
C22_Witness ==
    /\ op = [NoOp EXCEPT !.name = "prune_dmq", !.res = "Warned"]
    /\ Len(Live(1)) = 2
    /\ dmq_length(Storage, 1) = 2
    /\ prune_dmq(Storage, 1, 0, TRUE).res = "DebugAssert"
    /\ prune_dmq(Storage, 1, 0, TRUE).st = Storage
    /\ prune_dmq(Storage, 2, 1, TRUE).res = "Empty"

(***************************************************************************)
(* Two copies of one queue: paras 1 and 2 are sent the same messages in    *)
(* the same blocks, and each is pruned on its own.                         *)
(***************************************************************************)
\* the next message is queued to the first copy and then to the second
TwinQueueDownwardMessage(max) ==
    /\ Len(sent[1]) < MaxEnqTwin
    /\ LET msg == Msg(Len(sent[1]))
           r1 == queue_downward_message(Storage, DmpPageCapacity, block_number, max, 1, msg)
           r2 == queue_downward_message(r1.st, DmpPageCapacity, block_number, max, 2, msg)
       IN  /\ r1.res = r2.res
           /\ Persist(r2.st)
           /\ sent' = IF r2.res = "Ok"
                      THEN [p \in Paras |->
                                Append(sent[p], [msg |-> msg, sent_at |-> block_number])]
                      ELSE sent
           /\ op' = [NoOp EXCEPT !.name = "queue_downward_message", !.res = r2.res]
    /\ UNCHANGED << DmpPageCapacity, block_number, pruned >>

\* the relay chain moves to its next block
TwinNextBlock ==
    /\ block_number < MaxBlock
    /\ block_number' = block_number + 1
    /\ UNCHANGED << DownwardMessageQueueState, DownwardMessageQueuePages,
                    DownwardMessageQueueHeads, DownwardMessageQueueHeadsById,
                    DmpPageCapacity, sent, pruned, op >>

NextTwin ==
    \/ \E max \in MaxSizes : TwinQueueDownwardMessage(max)
    \/ \E para \in Paras, k \in U32 : PruneDmq(para, k, FALSE)
    \/ TwinNextBlock

SpecTwin == Init /\ [][NextTwin]_vars

(***************************************************************************)
(* C23: two copies of a queue that are sent the same messages in the same  *)
(* blocks, and are pruned differently, hold the same global MQC head after *)
(* every message and the same head for the same message index; the heads   *)
(* are the chain over (head before, block number, message) alone.          *)
(***************************************************************************)
C23_MqcDeterminism ==
    /\ DownwardMessageQueueHeads[1] = DownwardMessageQueueHeads[2]
    /\ Window(1).state.free_message_idx = Window(2).state.free_message_idx
    /\ \A i \in Idx :
        (InWindow(Window(1), i) /\ InWindow(Window(2), i)) =>
            /\ StorageExists(DownwardMessageQueueHeadsById, ParaMessageIndex(1, i))
            /\ DownwardMessageQueueHeadsById[ParaMessageIndex(1, i)]
                = DownwardMessageQueueHeadsById[ParaMessageIndex(2, i)]
    /\ \A para \in Paras :
        /\ StorageGet(DownwardMessageQueueHeads, para, HashZero)
            = (IF sent[para] = << >> THEN HashZero ELSE HeadsOfSent(para)[Len(sent[para])])
        /\ \A i \in Idx :
            InWindow(Window(para), i) =>
                DownwardMessageQueueHeadsById[ParaMessageIndex(para, i)]
                    = Some(HeadsOfSent(para)[Len(sent[para])
                            - wrapping_sub(Window(para).state.free_message_idx, i) + 1])

\* a message has just been queued to both copies, sent in different blocks, of
\* which one was emptied by prunes and the other was never pruned
C23_Witness ==
    /\ op = [NoOp EXCEPT !.name = "queue_downward_message", !.res = "Ok"]
    /\ sent[1] = sent[2]
    /\ Len(sent[1]) = 3
    /\ sent[1][1].sent_at = 0
    /\ sent[1][3].sent_at = 1
    /\ pruned[1] = 0
    /\ pruned[2] = 2
    /\ DownwardMessageQueueHeads[1] = Some(HeadsOfSent(1)[3])
    /\ DownwardMessageQueueHeads[2] = Some(HeadsOfSent(1)[3])
    /\ DownwardMessageQueueHeadsById[ParaMessageIndex(1, 2)]
        = DownwardMessageQueueHeadsById[ParaMessageIndex(2, 2)]

(***************************************************************************)
(* C24: every page of the ring of a para, from head_page_idx up to         *)
(* tail_page_idx, is stored and holds at least 1 and at most               *)
(* DmpPageCapacity messages, and every page of the ring other than the     *)
(* first and the last holds exactly DmpPageCapacity messages.              *)
(***************************************************************************)
C24_PagesAreDense ==
    \A para \in Paras :
        LET keys == RingBufferIterator(Ring(para)) IN
        \A i \in 1 .. Len(keys) :
            LET page == StorageGet(DownwardMessageQueuePages, keys[i], << >>) IN
            /\ StorageExists(DownwardMessageQueuePages, keys[i])
            /\ Len(page) >= 1
            /\ Len(page) <= DmpPageCapacity
            /\ (1 < i /\ i < Len(keys)) => Len(page) = DmpPageCapacity

\* a prune has just trimmed the first page of a ring of three pages whose last
\* page is not full
C24_Witness ==
    /\ op = [NoOp EXCEPT !.name = "prune_dmq", !.res = "Pruned"]
    /\ DmpPageCapacity = 2
    /\ RingBuffer_size(Ring(1)) = 3
    /\ Len(StorageGet(DownwardMessageQueuePages, RingBufferIterator(Ring(1))[1], << >>)) = 1
    /\ Len(StorageGet(DownwardMessageQueuePages, RingBufferIterator(Ring(1))[2], << >>)) = 2
    /\ Len(StorageGet(DownwardMessageQueuePages, RingBufferIterator(Ring(1))[3], << >>)) = 1

(***************************************************************************)
(* C25: an accepted queue_downward_message leaves head_page_idx and        *)
(* first_message_idx as they were, writes one page and no other, leaves    *)
(* every per-message MQC head already stored as it was, advances           *)
(* free_message_idx by 1, advances tail_page_idx by 1 exactly when the     *)
(* ring was empty or its tail page was full and by 0 otherwise, and puts   *)
(* the message after the messages already in the page it writes.           *)
(***************************************************************************)
C25_EnqueueFrame ==
    \A para \in Paras : \A max \in MaxSizes :
        LET msg == Msg(Len(sent[para]))
            r == queue_downward_message(Storage, DmpPageCapacity, block_number, max, para, msg)
            old == DownwardMessageQueueState[para]
            new == dmp_queue_state(r.st, para)
            last == RingBuffer_last_used(Ring(para))
            grows == \/ last = None
                     \/ Len(StorageGet(DownwardMessageQueuePages, last[1], << >>))
                            >= DmpPageCapacity
            written == QueuePageIndex(para, IF grows THEN old.ring_buffer_state.tail_page_idx
                                            ELSE last[1].page_idx)
        IN  r.res = "Ok" =>
                /\ new.ring_buffer_state.head_page_idx = old.ring_buffer_state.head_page_idx
                /\ new.message_window_state.first_message_idx
                    = old.message_window_state.first_message_idx
                /\ new.message_window_state.free_message_idx
                    = wrapping_inc(old.message_window_state.free_message_idx)
                /\ new.ring_buffer_state.tail_page_idx
                    = wrapping_add(old.ring_buffer_state.tail_page_idx, IF grows THEN 1 ELSE 0)
                /\ \A key \in QueuePageIndexes \ {written} :
                    r.st.pages[key] = DownwardMessageQueuePages[key]
                /\ r.st.pages[written]
                    = Some(Append(StorageGet(DownwardMessageQueuePages, written, << >>),
                                  [msg |-> msg, sent_at |-> block_number]))
                /\ \A key \in ParaMessageIndexes :
                    StorageExists(DownwardMessageQueueHeadsById, key)
                        => r.st.heads_by_id[key] = DownwardMessageQueueHeadsById[key]
                /\ \A other \in Paras \ {para} :
                    dmp_queue_state(r.st, other) = DownwardMessageQueueState[other]

(***************************************************************************)
(* C26: prune_dmq leaves tail_page_idx and free_message_idx as they were,  *)
(* changes no page other than the pages of the ring it drops and the one   *)
(* page it trims, and leaves the stored MQC head of every message that     *)
(* survives the prune as it was.                                           *)
(***************************************************************************)
C26_PruneFrame ==
    \A para \in Paras : \A k \in U32 :
        LET r == prune_dmq(Storage, para, k, FALSE)
            old == DownwardMessageQueueState[para]
            new == dmp_queue_state(r.st, para)
            keys == RingBufferIterator(Ring(para))
            \* the pages dropped: the ring's head has moved past them
            n == wrapping_sub(new.ring_buffer_state.head_page_idx,
                              old.ring_buffer_state.head_page_idx)
            \* the messages of the send history that are in the pages afterwards
            survivors == (pruned[para] + r.count + 1) .. Len(sent[para])
        IN  /\ new.ring_buffer_state.tail_page_idx = old.ring_buffer_state.tail_page_idx
            /\ new.message_window_state.free_message_idx
                = old.message_window_state.free_message_idx
            /\ n <= Len(keys)
            /\ \A key \in QueuePageIndexes :
                (\A i \in 1 .. Min(n + 1, Len(keys)) : key # keys[i])
                    => r.st.pages[key] = DownwardMessageQueuePages[key]
            /\ \A j \in survivors :
                \* the j-th message of a para was given the index j - 1
                LET key == ParaMessageIndex(para, (j - 1) % IdxSpace) IN
                r.st.heads_by_id[key] = DownwardMessageQueueHeadsById[key]
            /\ \A other \in Paras \ {para} :
                \A i \in Idx :
                    r.st.heads_by_id[ParaMessageIndex(other, i)]
                        = DownwardMessageQueueHeadsById[ParaMessageIndex(other, i)]

(***************************************************************************)
(* C27: message indices are given out in sequence: the first message of a  *)
(* para never sent to gets index 0 and every later one the index after the *)
(* one before it, modulo the index space, whatever was pruned in between;  *)
(* the index given out is not one of a message still in the queue; and the *)
(* message at position j (from 0) of the contents of the queue is the one  *)
(* that was given index first_message_idx + j.                             *)
(***************************************************************************)
C27_SequentialIndices ==
    \A para \in Paras :
        LET w == Window(para)
            contents == messages_in_pages(Storage, para)
        IN  /\ w.state.free_message_idx = Len(sent[para]) % IdxSpace
            /\ \A max \in MaxSizes :
                LET r == queue_downward_message(Storage, DmpPageCapacity, block_number,
                                                max, para, Msg(Len(sent[para])))
                    key == ParaMessageIndex(para, Len(sent[para]) % IdxSpace)
                IN  r.res = "Ok" =>
                        /\ r.st.heads_by_id[key] = r.st.heads[para]
                        /\ \A other \in ParaMessageIndexes \ {key} :
                            r.st.heads_by_id[other] = DownwardMessageQueueHeadsById[other]
                        /\ ~StorageExists(DownwardMessageQueueHeadsById, key)
            /\ \A j \in 0 .. (Len(contents) - 1) :
                /\ contents[j + 1] = sent[para][pruned[para] + j + 1]
                /\ wrapping_add(w.state.first_message_idx, j) = (pruned[para] + j) % IdxSpace

(***************************************************************************)
(* C28: enumerating a RingBuffer (pop_front until None) ends and yields    *)
(* size() keys: head_page_idx, head_page_idx + 1, ... up to tail_page_idx  *)
(* - 1 modulo the index space, in that order.  pop_front on a ring that is *)
(* not empty returns the key of the head and moves the head by one; on an  *)
(* empty ring it returns None and changes nothing.                         *)
(***************************************************************************)
C28_RingBufferIterates ==
    LET rb == Ring(1)
        keys == RingBufferIterator(rb)
        p == RingBuffer_pop_front(rb)
    IN  /\ Len(keys) = RingBuffer_size(rb)
        /\ \A i \in 1 .. Len(keys) :
            keys[i] = QueuePageIndex(1, (rb.state.head_page_idx + i - 1) % IdxSpace)
        /\ rb.state.head_page_idx # rb.state.tail_page_idx =>
            /\ p.ret = Some(QueuePageIndex(1, rb.state.head_page_idx))
            /\ p.rb.state.head_page_idx = (rb.state.head_page_idx + 1) % IdxSpace
            /\ p.rb.state.tail_page_idx = rb.state.tail_page_idx
            /\ RingBuffer_size(p.rb) = RingBuffer_size(rb) - 1
        /\ rb.state.head_page_idx = rb.state.tail_page_idx =>
            /\ p.ret = None
            /\ p.rb = rb

\* pop_front has just returned on a ring whose pages cross the wrap point
C28_Witness ==
    /\ op = [NoOp EXCEPT !.name = "RingBuffer::pop_front", !.res = "Ok"]
    /\ Ring(1).state = [head_page_idx |-> IdxSpace - 1, tail_page_idx |-> 2]
    /\ RingBufferIterator(Ring(1))
        = << QueuePageIndex(1, IdxSpace - 1), QueuePageIndex(1, 0), QueuePageIndex(1, 1) >>

(***************************************************************************)
(* C29: RingBuffer::prune(count) returns for every count, moves            *)
(* head_page_idx by min(size(), count) and leaves tail_page_idx as it was: *)
(* prune(0) changes nothing, and prune(count) with count >= size() leaves  *)
(* the ring empty, with front() and last_used() both None.                 *)
(***************************************************************************)
C29_RingBufferPrune ==
    \A count \in U32 :
        LET rb == Ring(1)
            r == RingBuffer_prune(rb, count)
        IN  /\ r.state.head_page_idx
                = (rb.state.head_page_idx + Min(RingBuffer_size(rb), count)) % IdxSpace
            /\ r.state.tail_page_idx = rb.state.tail_page_idx
            /\ RingBuffer_size(r) = RingBuffer_size(rb) - Min(RingBuffer_size(rb), count)
            /\ count = 0 => r = rb
            /\ count >= RingBuffer_size(rb) =>
                /\ RingBuffer_size(r) = 0
                /\ RingBuffer_front(r) = None
                /\ RingBuffer_last_used(r) = None

\* prune has just emptied a ring
C29_Witness ==
    /\ op = [NoOp EXCEPT !.name = "RingBuffer::prune", !.res = "Ok"]
    /\ Ring(1).state = [head_page_idx |-> 2, tail_page_idx |-> 2]
    /\ RingBuffer_front(Ring(1)) = None
    /\ RingBuffer_last_used(Ring(1)) = None

(***************************************************************************)
(* C30: MessageWindow::prune(count) moves first_message_idx by             *)
(* min(size(), count), leaves free_message_idx as it was, and returns the  *)
(* new first index when the window is not empty afterwards and None        *)
(* exactly when it is empty afterwards.                                    *)
(***************************************************************************)
C30_MessageWindowPrune ==
    \A count \in Idx :
        LET w == Window(1)
            r == MessageWindow_prune(w, count)
        IN  /\ r.w.state.first_message_idx
                = (w.state.first_message_idx + Min(MessageWindow_size(w), count)) % IdxSpace
            /\ r.w.state.free_message_idx = w.state.free_message_idx
            /\ MessageWindow_size(r.w) = MessageWindow_size(w) - Min(MessageWindow_size(w), count)
            /\ MessageWindow_size(r.w) > 0 =>
                r.ret = Some(ParaMessageIndex(1, r.w.state.first_message_idx))
            /\ r.ret = None <=> MessageWindow_size(r.w) = 0
            /\ r.ret = MessageWindow_first(r.w)

\* prune has just left one message in a window that crosses the wrap point
C30_Witness ==
    /\ op = [NoOp EXCEPT !.name = "MessageWindow::prune", !.res = "Ok"]
    /\ Window(1).state = [first_message_idx |-> IdxSpace - 1, free_message_idx |-> 1]
    /\ MessageWindow_size(Window(1)) = 2
    /\ MessageWindow_prune(Window(1), 1).ret = Some(ParaMessageIndex(1, 0))
    /\ MessageWindow_prune(Window(1), 2).ret = None

\* k calls of RingBuffer::extend on rb, as in the loop of the ringbuf_extend test;
\* panic is TRUE when one of them panicked
RECURSIVE RingBuffer_extend_times(_, _)
RingBuffer_extend_times(rb, k) ==
    IF k = 0
    THEN [panic |-> FALSE, rb |-> rb]
    ELSE LET e == RingBuffer_extend(rb) IN
         IF e.panic THEN [panic |-> TRUE, rb |-> rb] ELSE RingBuffer_extend_times(e.rb, k - 1)

(***************************************************************************)
(* C31: for a RingBuffer in any state, front() and last_used() are both    *)
(* None exactly when size() is 0; otherwise front() is the key at          *)
(* head_page_idx and last_used() the key at tail_page_idx - 1 modulo the   *)
(* index space.  After k extends of an empty ring at index h they are the  *)
(* keys at h and h + k - 1.                                                *)
(***************************************************************************)
C31_FrontAndLastUsed ==
    LET rb == Ring(1)
        h == rb.state.head_page_idx
        empty == RingBuffer_with_state([head_page_idx |-> h, tail_page_idx |-> h], 1)
    IN  /\ RingBuffer_front(rb) = None <=> RingBuffer_size(rb) = 0
        /\ RingBuffer_last_used(rb) = None <=> RingBuffer_size(rb) = 0
        /\ RingBuffer_size(rb) > 0 =>
            /\ RingBuffer_front(rb) = Some(QueuePageIndex(1, h))
            /\ RingBuffer_last_used(rb)
                = Some(QueuePageIndex(1, (rb.state.tail_page_idx + IdxSpace - 1) % IdxSpace))
        /\ \A k \in 1 .. (IdxSpace - 1) :
            LET e == RingBuffer_extend_times(empty, k) IN
            /\ ~e.panic
            /\ RingBuffer_size(e.rb) = k
            /\ RingBuffer_front(e.rb) = Some(QueuePageIndex(1, h))
            /\ RingBuffer_last_used(e.rb) = Some(QueuePageIndex(1, (h + k - 1) % IdxSpace))

\* extend has just returned on a ring whose last used page is past the wrap point
C31_Witness ==
    /\ op = [NoOp EXCEPT !.name = "RingBuffer::extend", !.res = "Ok"]
    /\ Ring(1).state = [head_page_idx |-> IdxSpace - 2, tail_page_idx |-> 1]
    /\ RingBuffer_front(Ring(1)) = Some(QueuePageIndex(1, IdxSpace - 2))
    /\ RingBuffer_last_used(Ring(1)) = Some(QueuePageIndex(1, 0))

(***************************************************************************)
(* A queue started at index 0 and a shifted copy: para 1 starts in the     *)
(* default state, para 2 with head = tail = h and first = free = m, as the *)
(* rings of the wrap_around tests are built with with_state.  Both are     *)
(* sent the same messages and pruned by the same counts.                   *)
(***************************************************************************)
InitShift ==
    /\ \E h \in Idx, m \in Idx :
        DownwardMessageQueueState =
            [p \in Paras |->
                IF p = 1
                THEN QueueState_default
                ELSE [ring_buffer_state |-> [head_page_idx |-> h, tail_page_idx |-> h],
                      message_window_state |->
                          [first_message_idx |-> m, free_message_idx |-> m]]]
    /\ DownwardMessageQueuePages = [k \in QueuePageIndexes |-> None]
    /\ DownwardMessageQueueHeads = [p \in Paras |-> None]
    /\ DownwardMessageQueueHeadsById = [k \in ParaMessageIndexes |-> None]
    /\ DmpPageCapacity \in 1 .. MaxPageCap
    /\ block_number = 0
    /\ sent = [p \in Paras |-> << >>]
    /\ pruned = [p \in Paras |-> 0]
    /\ op = NoOp

\* the result of one call made on both queues
Both(res1, res2) == IF res1 = res2 THEN res1 ELSE "Diverged"

\* a message is queued to the queue at 0 and then to the shifted queue, while
\* the window is smaller than the index space
ShiftQueueDownwardMessage(msg, max) ==
    /\ Len(sent[1]) < MaxEnqShift
    /\ MessageWindow_size(Window(1)) < IdxSpace - 1
    /\ LET r1 == queue_downward_message(Storage, DmpPageCapacity, block_number, max, 1, msg)
           r2 == queue_downward_message(r1.st, DmpPageCapacity, block_number, max, 2, msg)
       IN  /\ Persist(r2.st)
           /\ sent' = [p \in Paras |->
                        IF (IF p = 1 THEN r1.res ELSE r2.res) = "Ok"
                        THEN Append(sent[p], [msg |-> msg, sent_at |-> block_number])
                        ELSE sent[p]]
           /\ op' = [NoOp EXCEPT !.name = "queue_downward_message",
                                 !.res = Both(r1.res, r2.res)]
    /\ UNCHANGED << DmpPageCapacity, block_number, pruned >>

\* both queues are pruned by the same count
ShiftPruneDmq(k) ==
    /\ LET r1 == prune_dmq(Storage, 1, k, FALSE)
           r2 == prune_dmq(r1.st, 2, k, FALSE)
       IN  /\ Persist(r2.st)
           /\ pruned' = [p \in Paras |-> pruned[p] + (IF p = 1 THEN r1.count ELSE r2.count)]
           /\ op' = [NoOp EXCEPT !.name = "prune_dmq", !.res = Both(r1.res, r2.res)]
    /\ UNCHANGED << DmpPageCapacity, block_number, sent >>

NextShift ==
    \/ \E max \in MaxSizes :
         \E msg \in {Msg(Len(sent[1])), BigMsg} : ShiftQueueDownwardMessage(msg, max)
    \/ \E k \in U32 : ShiftPruneDmq(k)

SpecShift == InitShift /\ [][NextShift]_vars

\* the shifts of the stored page and message indices of para 2 against para 1
PageShift == wrapping_sub(Ring(2).state.head_page_idx, Ring(1).state.head_page_idx)
MessageShift ==
    wrapping_sub(Window(2).state.first_message_idx, Window(1).state.first_message_idx)

\* the two queues give the same results and hold the same values at shifted indices
ShiftedAlike ==
    /\ op.res # "Diverged"
    /\ sent[1] = sent[2]
    /\ pruned[1] = pruned[2]
    /\ dmq_length(Storage, 1) = dmq_length(Storage, 2)
    /\ dmq_contents(Storage, 1) = dmq_contents(Storage, 2)
    /\ \A a \in PageArgs :
        dmq_contents_bounded(Storage, 1, a[1], a[2]) = dmq_contents_bounded(Storage, 2, a[1], a[2])
    /\ \A k \in U32 :
        check_processed_downward_messages(Storage, 1, k)
            = check_processed_downward_messages(Storage, 2, k)
    /\ MessageWindow_size(Window(1)) = MessageWindow_size(Window(2))
    /\ RingBuffer_size(Ring(1)) = RingBuffer_size(Ring(2))
    /\ Ring(2).state.tail_page_idx = wrapping_add(Ring(1).state.tail_page_idx, PageShift)
    /\ Window(2).state.free_message_idx
        = wrapping_add(Window(1).state.free_message_idx, MessageShift)
    /\ DownwardMessageQueueHeads[1] = DownwardMessageQueueHeads[2]
    /\ \A i \in Idx :
        /\ DownwardMessageQueuePages[QueuePageIndex(2, wrapping_add(i, PageShift))]
            = DownwardMessageQueuePages[QueuePageIndex(1, i)]
        /\ DownwardMessageQueueHeadsById[ParaMessageIndex(2, wrapping_add(i, MessageShift))]
            = DownwardMessageQueueHeadsById[ParaMessageIndex(1, i)]

(***************************************************************************)
(* C32: wraparound is transparent.  A queue started at head = tail = h and *)
(* first = free = m gives, for every sequence of enqueues, checks, prunes  *)
(* and reads that keeps the window smaller than the index space, the same  *)
(* results, lengths and message contents as a queue started at index 0,    *)
(* and its stored indices are those of that queue shifted by h and m       *)
(* modulo the index space: the shifts never change.                        *)
(***************************************************************************)
C32_WrapIsTransparent ==
    /\ []ShiftedAlike
    /\ [][PageShift' = PageShift /\ MessageShift' = MessageShift]_vars

\* a message has just been queued to a shifted queue whose page and message
\* indices have both wrapped, and a prune has moved both queues before
C32_Witness ==
    /\ op = [NoOp EXCEPT !.name = "queue_downward_message", !.res = "Ok"]
    /\ PageShift = IdxSpace - 1
    /\ MessageShift = IdxSpace - 2
    /\ pruned[2] = 1
    /\ Len(sent[2]) = 3
    /\ Window(2).state = [first_message_idx |-> IdxSpace - 1, free_message_idx |-> 1]
    /\ Ring(2).state.tail_page_idx < Ring(2).state.head_page_idx
    /\ Window(1).state = [first_message_idx |-> 1, free_message_idx |-> 3]
    /\ dmq_length(Storage, 2) = 2

(***************************************************************************)
(* C33: after any sequence of enqueues and prunes, whenever the window of  *)
(* a para is not empty, the global MQC head of the para is the per-message *)
(* MQC head stored at the last live index, free_message_idx - 1.           *)
(***************************************************************************)
C33_GlobalHeadIsLastStored ==
    \A para \in Paras :
        MessageWindow_size(Window(para)) > 0 =>
            /\ StorageExists(DownwardMessageQueueHeads, para)
            /\ DownwardMessageQueueHeads[para]
                = DownwardMessageQueueHeadsById[
                    ParaMessageIndex(para, wrapping_dec(Window(para).state.free_message_idx))]

\* a prune has just removed two of three messages and their heads: the head
\* of the message left is the global head
C33_Witness ==
    /\ op = [NoOp EXCEPT !.name = "prune_dmq", !.res = "Pruned"]
    /\ Len(sent[1]) = 3
    /\ pruned[1] = 2
    /\ Window(1).state = [first_message_idx |-> 2, free_message_idx |-> 3]
    /\ DownwardMessageQueueHeads[1] = Some(HeadsOfSent(1)[3])
    /\ DownwardMessageQueueHeadsById[ParaMessageIndex(1, 2)] = Some(HeadsOfSent(1)[3])
    /\ DownwardMessageQueueHeadsById[ParaMessageIndex(1, 1)] = None

(***************************************************************************)
(* C34: dmq_length of a para is the size of its message window, for every  *)
(* size the index type can represent: the u32 value that is returned, and  *)
(* that check_processed_downward_messages uses, is never smaller than the  *)
(* number of pending messages because the window size was narrowed.        *)
(***************************************************************************)
C34_LengthIsWindowSize ==
    \A para \in Paras :
        LET size == MessageWindow_size(Window(para)) IN
        /\ dmq_length(Storage, para) = size
        /\ \A k \in U32 :
            check_processed_downward_messages(Storage, para, k).res
                = (IF size > 0 /\ k = 0 THEN "AdvancementRule"
                   ELSE IF size < k THEN "Underflow"
                   ELSE "Ok")

=============================================================================
